---- MODULE Spec2Model ----
(***************************************************************************)
(* Model of gitxposed.py: the paginated list fetchers, the breadth-first   *)
(* group walk, the single-archive download, the thread-pool dispatcher and *)
(* the retry loop of main.                                                 *)
(*                                                                         *)
(* Each component's loop body is one pure step operator.  The component's  *)
(* own specification runs the step as an action; a caller's specification  *)
(* runs the whole call by iterating the same step operator.                *)
(***************************************************************************)
EXTENDS Integers, Sequences, FiniteSets, TLC

VARIABLES
    routine,    \* which list routine the fetcher runs
    feed,       \* the remote list endpoint: its page responses, page 1 first
    fetcher,    \* locals of the running list routine
    remote,     \* the remote group hierarchy: the group list endpoints
    walk,       \* locals of get_hierarchical_groups
    job,        \* arguments of the running download_project_archive call
    xfer,       \* locals and effects of that call
    args,       \* main: all_targets and the --max-workers argument
    main,       \* main: successes, failures, attempt and position
    pool,       \* locals of the running download_in_parallel call
    disc,       \* main: locals of the discovery and target collection
    audit,      \* history of a run: rounds run, requests issued
    sane        \* a sanitize_name call: its argument and its result

fetchVars == <<routine, feed, fetcher>>
walkVars == <<remote, walk>>
xferVars == <<job, xfer>>
mainVars == <<args, main, pool, disc, audit>>
vars == <<fetchVars, walkVars, xferVars, mainVars, sane>>

\* A value for the variables a specification does not use.
Idle == "idle"

(***************************************************************************)
(* Bounds                                                                  *)
(***************************************************************************)
MaxPages == 3       \* pages a list endpoint serves before it runs out
MaxPerPage == 2     \* items on one served page
MaxTop == 2         \* groups in the top-level listing
MaxSubs == 2        \* groups in one subgroup listing
MaxTargets == 3     \* work items in all_targets
MaxWorkers == 2     \* the --max-workers argument
MaxNameLen == 3     \* characters in a name given to sanitize_name

(***************************************************************************)
(* Sequences                                                               *)
(***************************************************************************)
Range(s) == {s[i] : i \in 1..Len(s)}

SeqsUpTo(S, n) == UNION {[1..k -> S] : k \in 0..n}

RECURSIVE Flatten(_)
Flatten(ss) == IF ss = <<>> THEN <<>> ELSE Head(ss) \o Flatten(Tail(ss))

(***************************************************************************)
(* The remote list endpoints                                               *)
(***************************************************************************)
HTTP_OK == 200

\* Statuses other than 200: one that requests counts as ok (truthy response)
\* and one it does not.
NonOkStatuses == {204, 404}

\* What one page may hold: the ids the remote API can list.
PageItems == {"x", "y"}

Response(status, body) == [status |-> status, body |-> body]

\* The responses a page request can get: a success with a (possibly empty)
\* list, or a non-success status.
PageResponses ==
    {Response(HTTP_OK, b) : b \in SeqsUpTo(PageItems, MaxPerPage)}
        \cup {Response(st, <<>>) : st \in NonOkStatuses}

\* session.get(".../?per_page=100&page={page}"): past the last page the API
\* answers with an empty list.
session_get_page(pages, page) ==
    IF page \in 1..Len(pages) THEN pages[page] ELSE Response(HTTP_OK, <<>>)

(***************************************************************************)
(* Paginated fetch: get_top_level_groups, get_subgroups_for_group and      *)
(* get_projects_for_group run the same loop.                               *)
(***************************************************************************)
\* Locals at function entry: groups = [], page = 1.  requested is the
\* sequence of page numbers asked for so far (history).
FetchEntry == [pc |-> "loop", page |-> 1, items |-> <<>>, requested |-> <<>>]

\* A plausible slip: the batch replaces the list instead of extending it.
PageLoopOverwrites(f, pages) ==
    LET response == session_get_page(pages, f.page)
        asked == Append(f.requested, f.page)
    IN  IF response.status # HTTP_OK
        THEN [f EXCEPT !.pc = "raised", !.requested = asked]
        ELSE IF response.body = <<>>
        THEN [f EXCEPT !.pc = "returned", !.requested = asked]
        ELSE [f EXCEPT !.items = response.body, !.page = @ + 1,
                       !.requested = asked]

\* One iteration of "while True": request the page, raise on a non-200
\* status, break on an empty batch, else extend and go to the next page.
PageLoop(f, pages) ==
    LET response == session_get_page(pages, f.page)
        asked == Append(f.requested, f.page)
    IN  IF response.status # HTTP_OK
        THEN [f EXCEPT !.pc = "raised", !.requested = asked]
        ELSE IF response.body = <<>>
        THEN [f EXCEPT !.pc = "returned", !.requested = asked]
        ELSE [f EXCEPT !.items = @ \o response.body, !.page = @ + 1,
                       !.requested = asked]

\* The whole call: the loop run until it returns or raises.
RECURSIVE RunFetch(_, _)
RunFetch(f, pages) ==
    IF f.pc # "loop" THEN f ELSE RunFetch(PageLoop(f, pages), pages)

get_top_level_groups_step ==
    /\ routine = "get_top_level_groups"
    /\ fetcher.pc = "loop"
    /\ fetcher' = PageLoop(fetcher, feed)
    /\ UNCHANGED <<routine, feed, walkVars, xferVars, mainVars, sane>>

get_subgroups_for_group_step ==
    /\ routine = "get_subgroups_for_group"
    /\ fetcher.pc = "loop"
    /\ fetcher' = PageLoop(fetcher, feed)
    /\ UNCHANGED <<routine, feed, walkVars, xferVars, mainVars, sane>>

get_projects_for_group_step ==
    /\ routine = "get_projects_for_group"
    /\ fetcher.pc = "loop"
    /\ fetcher' = PageLoop(fetcher, feed)
    /\ UNCHANGED <<routine, feed, walkVars, xferVars, mainVars, sane>>

FetchRoutines ==
    {"get_top_level_groups", "get_subgroups_for_group", "get_projects_for_group"}

InitFetch ==
    /\ routine \in FetchRoutines
    /\ feed \in SeqsUpTo(PageResponses, MaxPages)
    /\ fetcher = FetchEntry
    /\ remote = Idle
    /\ walk = Idle
    /\ job = Idle
    /\ xfer = Idle
    /\ args = Idle
    /\ main = Idle
    /\ pool = Idle
    /\ disc = Idle
    /\ audit = Idle
    /\ sane = Idle

NextFetch ==
    \/ get_top_level_groups_step
    \/ get_subgroups_for_group_step
    \/ get_projects_for_group_step

SpecFetch == InitFetch /\ [][NextFetch]_vars

(***************************************************************************)
(* Names and paths.  A name is a sequence of characters.                   *)
(***************************************************************************)
\* The characters the class [^a-zA-Z0-9_\\-] of the raw-string pattern does
\* not match: letters, digits, underscore, backslash and hyphen (one
\* representative of each range).
KeptChars == {"a", "b", "Q", "7", "_", "\\", "-"}

\* re.sub(r"[^a-zA-Z0-9_\\-]", "_", name)
sanitize_name(name) ==
    [i \in 1..Len(name) |-> IF name[i] \in KeptChars THEN name[i] ELSE "_"]

\* os.path.join(a, b) on POSIX: an absolute b replaces a; otherwise a
\* separator is added unless a is empty or already ends with one.
os_path_join(a, b) ==
    IF b # <<>> /\ Head(b) = "/" THEN b
    ELSE IF a = <<>> \/ a[Len(a)] = "/" THEN a \o b
    ELSE a \o <<"/">> \o b

(***************************************************************************)
(* The remote group hierarchy                                              *)
(***************************************************************************)
Groups == {1, 2, 3}

\* The "name" field the API serves for each group id.
GroupName ==
    (1 :> <<"a", ".", "b">>) @@ (2 :> <<"Q", "/", "7">>) @@ (3 :> <<"-", "\\">>)

InjectiveSeqs(S, n) ==
    {s \in SeqsUpTo(S, n) : \A i, j \in 1..Len(s) : s[i] = s[j] => i = j}

\* A listing endpoint that serves `ids` on its first page, or fails.
ListingOf(ids) == IF ids = <<>> THEN <<>> ELSE <<Response(HTTP_OK, ids)>>
FailedListing == {<<Response(st, <<>>)>> : st \in NonOkStatuses}

\* A listing endpoint that serves one group on page 1 and fails on page 2.
PartlyFailedListing ==
    {<<Response(HTTP_OK, <<g>>), Response(404, <<>>)>> : g \in Groups}

\* The top-level listing may repeat a group (pages shifting between requests).
TopListings == {ListingOf(ids) : ids \in SeqsUpTo(Groups, MaxTop)}
SubListings == {ListingOf(ids) : ids \in InjectiveSeqs(Groups, MaxSubs)}

(***************************************************************************)
(* get_hierarchical_groups                                                 *)
(***************************************************************************)
\* get_top_level_groups(base_url, session), the whole call.
get_top_level_groups(rem) == RunFetch(FetchEntry, rem.top)

\* get_subgroups_for_group(base_url, session, group_id), the whole call.
get_subgroups_for_group(rem, group_id) == RunFetch(FetchEntry, rem.subs[group_id])

\* Locals before line 69.  asked is the sequence of group ids whose subgroup
\* listing was requested (history).
WalkEntry ==
    [pc |-> "top", queue |-> <<>>, visited_ids |-> {}, complete_list |-> <<>>,
     asked |-> <<>>]

\* Lines 69-79: list the top-level groups (an exception propagates) and
\* queue each with its sanitized name as full_path.
WalkTop(w, rem) ==
    LET call == get_top_level_groups(rem)
        top_groups == call.items
    IN  IF call.pc = "raised" THEN [w EXCEPT !.pc = "raised"]
        ELSE [w EXCEPT
                !.pc = "bfs",
                !.queue = [i \in 1..Len(top_groups) |->
                              [id |-> top_groups[i],
                               name |-> GroupName[top_groups[i]],
                               full_path |-> sanitize_name(GroupName[top_groups[i]])]]]

\* A plausible slip: the popped group is never found among the visited.
NeverVisited(w, group_id) == FALSE

\* Line 86: group_id in visited_ids
AlreadyVisited(w, group_id) == group_id \in w.visited_ids

\* A plausible slip: the parent's own name instead of its full path.
SubPathFromParentName(current_group, sub_name) ==
    os_path_join(sanitize_name(current_group.name), sanitize_name(sub_name))

\* Lines 104-105: parent's path + new subgroup folder name
SubPath(current_group, sub_name) ==
    os_path_join(current_group.full_path, sanitize_name(sub_name))

\* A plausible slip: "break" for "continue" at line 98, so that a failed
\* subgroup listing ends the walk with the queue unprocessed.
WalkLoopBreaksOnFailure(w, rem) ==
    IF w.queue = <<>> THEN [w EXCEPT !.pc = "returned"]
    ELSE
    LET current_group == Head(w.queue)
        rest == Tail(w.queue)
        group_id == current_group.id
    IN  IF AlreadyVisited(w, group_id) THEN [w EXCEPT !.queue = rest]
        ELSE
        LET visited == w.visited_ids \cup {group_id}
            call == get_subgroups_for_group(rem, group_id)
            subs == SelectSeq(call.items, LAMBDA sub_id : sub_id \notin visited)
            queued == [i \in 1..Len(subs) |->
                          [id |-> subs[i],
                           name |-> GroupName[subs[i]],
                           full_path |-> SubPath(current_group, GroupName[subs[i]])]]
        IN  [w EXCEPT
                !.visited_ids = visited,
                !.complete_list = Append(@, current_group),
                !.asked = Append(@, group_id),
                !.queue = IF call.pc = "raised" THEN <<>> ELSE rest \o queued]

\* Lines 82-109: one iteration of "while queue", or the return when the
\* queue is empty.
WalkLoop(w, rem) ==
    IF w.queue = <<>> THEN [w EXCEPT !.pc = "returned"]
    ELSE
    LET current_group == Head(w.queue)
        rest == Tail(w.queue)
        group_id == current_group.id
    IN  IF AlreadyVisited(w, group_id) THEN [w EXCEPT !.queue = rest]
        ELSE
        LET visited == w.visited_ids \cup {group_id}
            call == get_subgroups_for_group(rem, group_id)
            subs == SelectSeq(call.items, LAMBDA sub_id : sub_id \notin visited)
            queued == [i \in 1..Len(subs) |->
                          [id |-> subs[i],
                           name |-> GroupName[subs[i]],
                           full_path |-> SubPath(current_group, GroupName[subs[i]])]]
        IN  [w EXCEPT
                !.visited_ids = visited,
                !.complete_list = Append(@, current_group),
                !.asked = Append(@, group_id),
                !.queue = IF call.pc = "raised" THEN rest ELSE rest \o queued]

WalkBegin ==
    /\ walk.pc = "top"
    /\ walk' = WalkTop(walk, remote)
    /\ UNCHANGED <<remote, fetchVars, xferVars, mainVars, sane>>

WalkStep ==
    /\ walk.pc = "bfs"
    /\ walk' = WalkLoop(walk, remote)
    /\ UNCHANGED <<remote, fetchVars, xferVars, mainVars, sane>>

InitWalk ==
    /\ remote \in [top : TopListings \cup FailedListing,
                   subs : [Groups -> SubListings \cup FailedListing
                                        \cup PartlyFailedListing]]
    /\ walk = WalkEntry
    /\ routine = Idle
    /\ feed = Idle
    /\ fetcher = Idle
    /\ job = Idle
    /\ xfer = Idle
    /\ args = Idle
    /\ main = Idle
    /\ pool = Idle
    /\ disc = Idle
    /\ audit = Idle
    /\ sane = Idle

NextWalk == WalkBegin \/ WalkStep

SpecWalk == InitWalk /\ [][NextWalk]_vars

(***************************************************************************)
(* The walk as one thread running to completion, on every subgroup         *)
(* relation over Groups: each group lists any set of groups (itself        *)
(* included) in ascending id order, or its listing fails.  The top-level   *)
(* listing gives group 1, possibly more than once.                         *)
(***************************************************************************)
RECURSIVE AscendingSeq(_)
AscendingSeq(S) ==
    IF S = {} THEN <<>>
    ELSE LET m == CHOOSE x \in S : \A y \in S : x <= y
         IN  <<m>> \o AscendingSeq(S \ {m})

AnyChildren == {ListingOf(AscendingSeq(S)) : S \in SUBSET Groups}

InitWalkLive ==
    /\ remote \in [top : {ListingOf(ids) : ids \in SeqsUpTo({1}, MaxTop)},
                   subs : [Groups -> AnyChildren \cup FailedListing]]
    /\ walk = WalkEntry
    /\ routine = Idle
    /\ feed = Idle
    /\ fetcher = Idle
    /\ job = Idle
    /\ xfer = Idle
    /\ args = Idle
    /\ main = Idle
    /\ pool = Idle
    /\ disc = Idle
    /\ audit = Idle
    /\ sane = Idle

\* A step that can be taken is taken.
SpecWalkLive == InitWalkLive /\ [][NextWalk]_vars /\ WF_vars(NextWalk)

(***************************************************************************)
(* download_project_archive                                                *)
(***************************************************************************)
\* Python's None, and the truth value of the values default_branch takes.
None == "None"
Falsy(v) == v \in {None, ""}

\* project.get(key, default)
project_get(project, key, default) ==
    IF key \in DOMAIN project THEN project[key] ELSE default

\* Project records the API serves: without a default_branch key, with a
\* null or empty one, and with a branch.
ProjectRecords ==
    { [id |-> 11, name |-> <<"a", " ", "b">>],
      [id |-> 12, name |-> <<"a", " ", "b">>, default_branch |-> None],
      [id |-> 13, name |-> <<"Q", ".", "7">>, default_branch |-> ""],
      [id |-> 14, name |-> <<"a", " ", "b">>, default_branch |-> "main"],
      [id |-> 15, name |-> <<"a", "_", "b">>, default_branch |-> "dev"] }

max_attempts == 3

\* What the environment does to one session.get(archive_url): a response
\* with a status, a requests.exceptions.RequestException, or an exception
\* of another class.
AttemptOutcomes ==
    {[kind |-> "status", status |-> st] : st \in {HTTP_OK} \cup NonOkStatuses}
        \cup {[kind |-> "RequestException", status |-> 0],
              [kind |-> "Exception", status |-> 0]}

\* os.makedirs(group_folder, exist_ok=True): done, or OSError.
MkdirOutcomes == {"ok", "OSError"}

\* Writing the file: done, open() fails, or a write fails after open()
\* created the file.
WriteOutcomes == {"ok", "open fails", "write fails"}

\* response = None
NoResponse == [kind |-> "None", status |-> 0]

\* bool(response): None is false, a Response is true when its status is
\* below 400.
Truthy(response) == response # NoResponse /\ response.status < 400

\* f"{base_url}/api/v4/projects/{project_id}/repository/archive?sha={default_branch}"
archive_url(project_id, default_branch) ==
    <<"/api/v4/projects/", ToString(project_id), "/repository/archive?sha=",
      default_branch>>

\* hashlib.md5(archive_url).hexdigest()[:8], taken as injective: the digest
\* is the URL itself between delimiters.
short_hash(url) == <<"md5[">> \o url \o <<"]">>

\* Locals at entry.  requests counts the archive requests issued, seen is
\* the sequence of their outcomes (history); dirs and files are the
\* directories created and the files opened for writing.
XferEntry ==
    [pc |-> "start", attempt |-> 0, response |-> NoResponse, result |-> None,
     download_path |-> <<>>, requests |-> 0, seen |-> <<>>, dirs |-> {},
     files |-> {}]

\* A plausible slip: only a null branch is skipped, an empty one is not.
XferStartIsNone(x, j, mk) ==
    LET default_branch == project_get(j.project, "default_branch", None)
        group_folder == os_path_join(j.output_dir, j.group_full_path)
        url == archive_url(j.project.id, default_branch)
        filename == sanitize_name(j.project.name) \o <<"_">> \o short_hash(url)
                        \o <<".zip">>
    IN  IF default_branch = None
        THEN [x EXCEPT !.pc = "returned", !.result = TRUE]
        ELSE IF mk = "OSError" THEN [x EXCEPT !.pc = "raised"]
        ELSE [x EXCEPT !.pc = "attempt", !.attempt = 1,
                       !.dirs = @ \cup {group_folder},
                       !.download_path = os_path_join(group_folder, filename)]

\* Lines 142-167: return True without a default branch; else create the
\* group folder (an OSError propagates) and name the destination file.
XferStart(x, j, mk) ==
    LET default_branch == project_get(j.project, "default_branch", None)
        group_folder == os_path_join(j.output_dir, j.group_full_path)
        url == archive_url(j.project.id, default_branch)
        filename == sanitize_name(j.project.name) \o <<"_">> \o short_hash(url)
                        \o <<".zip">>
    IN  IF Falsy(default_branch)
        THEN [x EXCEPT !.pc = "returned", !.result = TRUE]
        ELSE IF mk = "OSError" THEN [x EXCEPT !.pc = "raised"]
        ELSE [x EXCEPT !.pc = "attempt", !.attempt = 1,
                       !.dirs = @ \cup {group_folder},
                       !.download_path = os_path_join(group_folder, filename)]

\* Lines 168-178: one iteration of "for attempt in range(1, max_attempts + 1)".
\* A 200 breaks; another status or a RequestException goes to the next
\* attempt, or out of the loop after the last; another exception propagates.
XferAttempt(x, o) ==
    LET counted == [x EXCEPT !.requests = @ + 1, !.seen = Append(@, o)]
        next == IF x.attempt < max_attempts
                THEN [counted EXCEPT !.attempt = @ + 1]
                ELSE [counted EXCEPT !.pc = "after"]
    IN  CASE o.kind = "status" /\ o.status = HTTP_OK ->
                [counted EXCEPT !.response = o, !.pc = "after"]
          [] o.kind = "status" /\ o.status # HTTP_OK ->
                [next EXCEPT !.response = o]
          [] o.kind = "RequestException" -> next
          [] o.kind = "Exception" -> [counted EXCEPT !.pc = "raised"]

\* A plausible slip: only the truth value of the response is tested.
XferFinishTruthOnly(x, wr) ==
    IF ~Truthy(x.response)
    THEN [x EXCEPT !.pc = "returned", !.result = FALSE]
    ELSE CASE wr = "ok" ->
                [x EXCEPT !.pc = "returned", !.result = TRUE,
                          !.files = @ \cup {x.download_path}]
           [] wr = "open fails" ->
                [x EXCEPT !.pc = "returned", !.result = FALSE]
           [] wr = "write fails" ->
                [x EXCEPT !.pc = "returned", !.result = FALSE,
                          !.files = @ \cup {x.download_path}]

\* Lines 180-194: False unless the last response is a 200; else write the
\* file, True when that worked and False on any exception.
XferFinish(x, wr) ==
    IF ~Truthy(x.response) \/ x.response.status # HTTP_OK
    THEN [x EXCEPT !.pc = "returned", !.result = FALSE]
    ELSE CASE wr = "ok" ->
                [x EXCEPT !.pc = "returned", !.result = TRUE,
                          !.files = @ \cup {x.download_path}]
           [] wr = "open fails" ->
                [x EXCEPT !.pc = "returned", !.result = FALSE]
           [] wr = "write fails" ->
                [x EXCEPT !.pc = "returned", !.result = FALSE,
                          !.files = @ \cup {x.download_path}]

XferBegin ==
    /\ xfer.pc = "start"
    /\ \E mk \in MkdirOutcomes : xfer' = XferStart(xfer, job, mk)
    /\ UNCHANGED <<job, fetchVars, walkVars, mainVars, sane>>

XferRequest ==
    /\ xfer.pc = "attempt"
    /\ \E o \in AttemptOutcomes : xfer' = XferAttempt(xfer, o)
    /\ UNCHANGED <<job, fetchVars, walkVars, mainVars, sane>>

XferEnd ==
    /\ xfer.pc = "after"
    /\ \E wr \in WriteOutcomes : xfer' = XferFinish(xfer, wr)
    /\ UNCHANGED <<job, fetchVars, walkVars, mainVars, sane>>

\* The arguments of a call: a group path and name, a project, the output
\* directory.
XferJobs ==
    [group_full_path : {sanitize_name(GroupName[g]) : g \in Groups}
                          \cup {os_path_join(sanitize_name(GroupName[2]),
                                              sanitize_name(GroupName[1]))},
     group_name : {GroupName[g] : g \in Groups},
     project : ProjectRecords,
     output_dir : {<<"out">>}]

InitXfer ==
    /\ job \in XferJobs
    /\ xfer = XferEntry
    /\ routine = Idle
    /\ feed = Idle
    /\ fetcher = Idle
    /\ remote = Idle
    /\ walk = Idle
    /\ args = Idle
    /\ main = Idle
    /\ pool = Idle
    /\ disc = Idle
    /\ audit = Idle
    /\ sane = Idle

NextXfer == XferBegin \/ XferRequest \/ XferEnd

SpecXfer == InitXfer /\ [][NextXfer]_vars

(***************************************************************************)
(* download_project_archive as one call, for the dispatcher's workers      *)
(***************************************************************************)
\* What the environment does during one call: to makedirs, to each of the
\* attempts, to the file write.
Scripts ==
    [mk : MkdirOutcomes, att : [1..max_attempts -> AttemptOutcomes],
     wr : WriteOutcomes]

RECURSIVE RunXfer(_, _, _)
RunXfer(x, j, sc) ==
    CASE x.pc = "start" -> RunXfer(XferStart(x, j, sc.mk), j, sc)
      [] x.pc = "attempt" -> RunXfer(XferAttempt(x, sc.att[x.attempt]), j, sc)
      [] x.pc = "after" -> RunXfer(XferFinish(x, sc.wr), j, sc)
      [] OTHER -> x

download_project_archive(j, sc) == RunXfer(XferEntry, j, sc)

\* How the future of a call ends: with result True or False, or with the
\* exception the call raised.
FutureOutcome(x) ==
    IF x.pc = "raised" THEN "raised"
    ELSE IF x.result = TRUE THEN "True" ELSE "False"

\* Every way a call can go: <<call, outcome of its future, archive requests
\* it issued, directories and files it created>>.
ArchiveOutcomes ==
    UNION {{LET x == download_project_archive(j, sc)
            IN  <<j, FutureOutcome(x), x.requests,
                  Cardinality(x.dirs) + Cardinality(x.files)>> : sc \in Scripts} :
              j \in XferJobs}

(***************************************************************************)
(* download_in_parallel                                                    *)
(***************************************************************************)
\* A work item (group_full_path, group_name, project).  item is the index
\* in all_targets of the work item it stands for (history, not part of the
\* tuple).
Target(group_full_path, group_name, project, item) ==
    [group_full_path |-> group_full_path, group_name |-> group_name,
     project |-> project, item |-> item]

JobOf(t, output_dir) ==
    [group_full_path |-> t.group_full_path, group_name |-> t.group_name,
     project |-> t.project, output_dir |-> output_dir]

\* Lines 201-222: empty result lists, every target submitted to the
\* executor.  fut[i] is the state of the future of targets[i]; yielded holds
\* the futures as_completed has handed to the loop.
Submit(targets) ==
    [pc |-> "pool", targets |-> targets,
     fut |-> [i \in 1..Len(targets) |-> "queued"], yielded |-> {},
     success_list |-> <<>>, failure_list |-> <<>>, completed |-> 0]

Running(d) == {i \in 1..Len(d.targets) : d.fut[i] = "running"}
Queued(d) == {i \in 1..Len(d.targets) : d.fut[i] = "queued"}
Finished(d) == {i \in 1..Len(d.targets) : d.fut[i] \in {"True", "False", "raised"}}

\* A plausible slip: the executor built without the worker limit.
WorkerAlwaysFree(d, max_workers) == TRUE

\* Line 210: ThreadPoolExecutor(max_workers=max_workers) runs a queued call
\* only on one of its max_workers threads.
WorkerFree(d, max_workers) == Cardinality(Running(d)) < max_workers

\* A plausible slip: a result that is not True is dropped, not recorded.
CollectDropsFalse(d, i) ==
    LET t == d.targets[i]
        counted == [d EXCEPT !.yielded = @ \cup {i}, !.completed = @ + 1]
    IN  CASE d.fut[i] = "True" ->
               [counted EXCEPT !.success_list =
                   Append(@, [group_name |-> t.group_name,
                              project_name |-> t.project.name,
                              item |-> t.item])]
          [] d.fut[i] = "False" -> counted
          [] d.fut[i] = "raised" ->
               [counted EXCEPT !.failure_list =
                   Append(@, [group_name |-> t.group_name,
                              project |-> t.project, item |-> t.item])]

\* A plausible slip: the exception of a call is not caught around
\* future.result() and leaves download_in_parallel.
CollectReraises(d, i) ==
    LET t == d.targets[i]
        counted == [d EXCEPT !.yielded = @ \cup {i}, !.completed = @ + 1]
    IN  CASE d.fut[i] = "True" ->
               [counted EXCEPT !.success_list =
                   Append(@, [group_name |-> t.group_name,
                              project_name |-> t.project.name,
                              item |-> t.item])]
          [] d.fut[i] = "False" ->
               [counted EXCEPT !.failure_list =
                   Append(@, [group_name |-> t.group_name,
                              project |-> t.project, item |-> t.item])]
          [] d.fut[i] = "raised" -> [counted EXCEPT !.pc = "raised"]

\* Lines 224-239: the body of "for future in as_completed(...)" for the
\* finished future of targets[i].
Collect(d, i) ==
    LET t == d.targets[i]
        counted == [d EXCEPT !.yielded = @ \cup {i}, !.completed = @ + 1]
    IN  CASE d.fut[i] = "True" ->
               [counted EXCEPT !.success_list =
                   Append(@, [group_name |-> t.group_name,
                              project_name |-> t.project.name,
                              item |-> t.item])]
          [] d.fut[i] \in {"False", "raised"} ->
               [counted EXCEPT !.failure_list =
                   Append(@, [group_name |-> t.group_name,
                              project |-> t.project, item |-> t.item])]

(***************************************************************************)
(* main, from the initial download_in_parallel call on                     *)
(***************************************************************************)
output_dir == <<"out">>

\* History of a run, kept when on: k is the number of failures the initial
\* pass left, rounds the retry rounds completed, requests the archive
\* requests issued so far for the work item `watched` of all_targets,
\* effects whether any call has issued a request or created a directory or
\* a file.
NoAudit ==
    [on |-> FALSE, watched |-> 0, k |-> 0, rounds |-> 0, requests |-> 0,
     effects |-> FALSE]

\* Lines 154, 170 and 186, recorded over one finished call for target t.
AuditCall(a, t, requests, created) ==
    IF ~a.on THEN a
    ELSE [a EXCEPT !.requests = IF t.item = a.watched THEN @ + requests ELSE @,
                   !.effects = @ \/ requests > 0 \/ created > 0]

\* Lines 353 and 376: a download_in_parallel call came back.
AuditReturn(a, caller, failure_list) ==
    IF ~a.on THEN a
    ELSE IF caller = "initial" THEN [a EXCEPT !.k = Len(failure_list)]
    ELSE [a EXCEPT !.rounds = @ + 1]

\* Lines 363-365: path_lookup[(g_name, prj['id'])] = full_path, later
\* targets overwriting earlier ones.
LookupKeys(all_targets) ==
    {<<all_targets[i].group_name, all_targets[i].project.id>> :
        i \in 1..Len(all_targets)}

path_lookup(all_targets, key) ==
    LET last == CHOOSE i \in 1..Len(all_targets) :
                  /\ <<all_targets[i].group_name, all_targets[i].project.id>> = key
                  /\ \A k \in (i + 1)..Len(all_targets) :
                        <<all_targets[k].group_name, all_targets[k].project.id>> # key
    IN  all_targets[last].group_full_path

\* A plausible slip: a retry round submits every target again.
failure_targetsResubmitsAll(all_targets, failures) == all_targets

\* Lines 367-373: the failed pairs rebuilt as targets; a pair whose key is
\* not in path_lookup is left out.
failure_targets(all_targets, failures) ==
    LET found == SelectSeq(failures,
                    LAMBDA f : <<f.group_name, f.project.id>> \in LookupKeys(all_targets))
    IN  [k \in 1..Len(found) |->
            Target(path_lookup(all_targets, <<found[k].group_name, found[k].project.id>>),
                   found[k].group_name, found[k].project, found[k].item)]

\* A plausible slip: the round's failures are added to the old ones.
AfterRetryKeepsOldFailures(m, new_successes, new_failures) ==
    IF new_failures = <<>>
    THEN [m EXCEPT !.successes = @ \o new_successes, !.failures = <<>>,
                   !.pc = "done"]
    ELSE IF Len(new_failures) = Len(m.failures)
    THEN [m EXCEPT !.successes = @ \o new_successes,
                   !.failures = @ \o new_failures, !.pc = "done"]
    ELSE [m EXCEPT !.successes = @ \o new_successes,
                   !.failures = @ \o new_failures,
                   !.attempt = @ + 1, !.pc = "while"]

\* A plausible slip: a fixed ceiling of two retry rounds.
AfterRetryWithCeiling(m, new_successes, new_failures) ==
    IF new_failures = <<>>
    THEN [m EXCEPT !.successes = @ \o new_successes, !.failures = <<>>,
                   !.pc = "done"]
    ELSE IF Len(new_failures) = Len(m.failures) \/ m.attempt >= 2
    THEN [m EXCEPT !.successes = @ \o new_successes,
                   !.failures = new_failures, !.pc = "done"]
    ELSE [m EXCEPT !.successes = @ \o new_successes,
                   !.failures = new_failures,
                   !.attempt = @ + 1, !.pc = "while"]

\* A plausible slip: the stall test missing, so a stalled round is retried.
AfterRetryWithoutStallTest(m, new_successes, new_failures) ==
    IF new_failures = <<>>
    THEN [m EXCEPT !.successes = @ \o new_successes, !.failures = <<>>,
                   !.pc = "done"]
    ELSE [m EXCEPT !.successes = @ \o new_successes,
                   !.failures = new_failures,
                   !.attempt = @ + 1, !.pc = "while"]

\* Lines 379-394: what the retry loop does with a round's result.
AfterRetry(m, new_successes, new_failures) ==
    IF new_failures = <<>>
    THEN [m EXCEPT !.successes = @ \o new_successes, !.failures = <<>>,
                   !.pc = "done"]
    ELSE IF Len(new_failures) = Len(m.failures)
    THEN [m EXCEPT !.successes = @ \o new_successes,
                   !.failures = new_failures, !.pc = "done"]
    ELSE [m EXCEPT !.successes = @ \o new_successes,
                   !.failures = new_failures,
                   !.attempt = @ + 1, !.pc = "while"]

\* Lines 353-358: the initial pass's result, attempt = 1.
AfterInitial(m, success_list, failure_list) ==
    [m EXCEPT !.successes = success_list, !.failures = failure_list,
              !.attempt = 1, !.pc = "while"]

\* Line 353: the initial call.  ThreadPoolExecutor raises ValueError for
\* max_workers <= 0, which nothing in main catches.
InitialPass ==
    /\ main.pc = "initial"
    /\ IF args.max_workers <= 0
       THEN /\ main' = [main EXCEPT !.pc = "crashed"]
            /\ pool' = pool
       ELSE /\ main' = [main EXCEPT !.pc = "pool", !.caller = "initial"]
            /\ pool' = Submit(args.all_targets)
    /\ UNCHANGED <<args, disc, audit, fetchVars, walkVars, xferVars, sane>>

\* Lines 359-377: the loop test, then the failed pairs rebuilt and
\* dispatched again; line 396 on when no failure is left.
RetryPass ==
    /\ main.pc = "while"
    /\ IF main.failures = <<>>
       THEN /\ main' = [main EXCEPT !.pc = "done"]
            /\ pool' = pool
       ELSE /\ main' = [main EXCEPT !.pc = "pool", !.caller = "retry"]
            /\ pool' = Submit(failure_targets(args.all_targets, main.failures))
    /\ UNCHANGED <<args, disc, audit, fetchVars, walkVars, xferVars, sane>>

\* A worker thread takes the oldest queued call and starts it.
WorkerStart ==
    /\ main.pc = "pool"
    /\ Queued(pool) # {}
    /\ WorkerFree(pool, args.max_workers)
    /\ LET i == CHOOSE q \in Queued(pool) : \A r \in Queued(pool) : q <= r
       IN  pool' = [pool EXCEPT !.fut[i] = "running"]
    /\ UNCHANGED <<args, main, disc, audit, fetchVars, walkVars, xferVars, sane>>

\* A running download_project_archive call ends.
WorkerFinish ==
    /\ main.pc = "pool"
    /\ \E i \in Running(pool) :
          \E call \in ArchiveOutcomes :
             /\ call[1] = JobOf(pool.targets[i], output_dir)
             /\ pool' = [pool EXCEPT !.fut[i] = call[2]]
             /\ audit' = AuditCall(audit, pool.targets[i], call[3], call[4])
    /\ UNCHANGED <<args, main, disc, fetchVars, walkVars, xferVars, sane>>

\* as_completed yields a finished future and the loop body records it.
CollectFuture ==
    /\ main.pc = "pool"
    /\ \E i \in Finished(pool) \ pool.yielded : pool' = Collect(pool, i)
    /\ UNCHANGED <<args, main, disc, audit, fetchVars, walkVars, xferVars, sane>>

\* Line 241: every future was yielded; the lists go back to main, which
\* takes them as the initial result or as the result of a retry round.
DispatchReturn ==
    /\ main.pc = "pool"
    /\ pool.yielded = 1..Len(pool.targets)
    /\ pool' = [pool EXCEPT !.pc = "returned"]
    /\ main' = IF main.caller = "initial"
               THEN AfterInitial(main, pool.success_list, pool.failure_list)
               ELSE AfterRetry(main, pool.success_list, pool.failure_list)
    /\ audit' = AuditReturn(audit, main.caller, pool.failure_list)
    /\ UNCHANGED <<args, disc, fetchVars, walkVars, xferVars, sane>>

\* Work items as the target collection of lines 339-350 builds them: two
\* groups of the same name at different paths that both list project 14,
\* and projects with and without a default branch.
PathOf(ids) ==
    IF Len(ids) = 1 THEN sanitize_name(GroupName[ids[1]])
    ELSE os_path_join(sanitize_name(GroupName[ids[1]]), sanitize_name(GroupName[ids[2]]))

ProjectById(id) == CHOOSE p \in ProjectRecords : p.id = id

WorkItems ==
    { [group_full_path |-> PathOf(<<1>>), group_name |-> GroupName[1],
       project |-> ProjectById(14)],
      [group_full_path |-> PathOf(<<2, 1>>), group_name |-> GroupName[1],
       project |-> ProjectById(14)],
      [group_full_path |-> PathOf(<<2>>), group_name |-> GroupName[2],
       project |-> ProjectById(15)],
      [group_full_path |-> PathOf(<<2>>), group_name |-> GroupName[2],
       project |-> ProjectById(12)] }

InitMain ==
    /\ \E items \in InjectiveSeqs(WorkItems, MaxTargets) :
       \E w \in 0..MaxWorkers :
          args = [all_targets |->
                     [i \in 1..Len(items) |->
                         Target(items[i].group_full_path, items[i].group_name,
                                items[i].project, i)],
                  max_workers |-> w]
    /\ main = [pc |-> "initial", caller |-> "initial", successes |-> <<>>,
               failures |-> <<>>, attempt |-> 0]
    /\ pool = Submit(<<>>)
    /\ disc = Idle
    /\ audit = NoAudit
    /\ sane = Idle
    /\ routine = Idle
    /\ feed = Idle
    /\ fetcher = Idle
    /\ remote = Idle
    /\ walk = Idle
    /\ job = Idle
    /\ xfer = Idle

NextMain ==
    \/ InitialPass
    \/ RetryPass
    \/ WorkerStart
    \/ WorkerFinish
    \/ CollectFuture
    \/ DispatchReturn

SpecMain == InitMain /\ [][NextMain]_vars

(***************************************************************************)
(* The same run with its history kept: the retry rounds and the archive    *)
(* requests of one work item are counted.  The item watched is the first   *)
(* of all_targets, which ranges over every order of the work items; the    *)
(* pool has one worker or MaxWorkers.                                      *)
(***************************************************************************)
MaxRetryTargets == 2    \* work items in all_targets when the history is kept

InitRetry ==
    /\ \E items \in InjectiveSeqs(WorkItems, MaxRetryTargets) \ {<<>>} :
       \E w \in {1, MaxWorkers} :
          args = [all_targets |->
                     [i \in 1..Len(items) |->
                         Target(items[i].group_full_path, items[i].group_name,
                                items[i].project, i)],
                  max_workers |-> w]
    /\ audit = [NoAudit EXCEPT !.on = TRUE, !.watched = 1]
    /\ main = [pc |-> "initial", caller |-> "initial", successes |-> <<>>,
               failures |-> <<>>, attempt |-> 0]
    /\ pool = Submit(<<>>)
    /\ disc = Idle
    /\ sane = Idle
    /\ routine = Idle
    /\ feed = Idle
    /\ fetcher = Idle
    /\ remote = Idle
    /\ walk = Idle
    /\ job = Idle
    /\ xfer = Idle

SpecRetry == InitRetry /\ [][NextMain]_vars

(***************************************************************************)
(* main as a whole: discovery, target collection, then the passes above    *)
(***************************************************************************)
RECURSIVE RunWalk(_, _)
RunWalk(w, rem) ==
    CASE w.pc = "top" -> RunWalk(WalkTop(w, rem), rem)
      [] w.pc = "bfs" -> RunWalk(WalkLoop(w, rem), rem)
      [] OTHER -> w

\* get_hierarchical_groups(args.gitlab_url, session), the whole call.
get_hierarchical_groups(rem) == RunWalk(WalkEntry, rem)

\* get_projects_for_group(base_url, session, group_id, group_name), the
\* whole call.
get_projects_for_group(rem, group_id) == RunFetch(FetchEntry, rem.projects[group_id])

\* A plausible slip: the except clause of line 334 without its return.
AfterDiscoveryProceeds(m, w) ==
    IF w.pc = "returned" /\ w.complete_list = <<>>
    THEN [m EXCEPT !.pc = "ended"]
    ELSE [m EXCEPT !.pc = "collect"]

\* Lines 329-336: main returns when the call raised or found no group.
AfterDiscovery(m, w) ==
    IF w.pc = "raised" THEN [m EXCEPT !.pc = "ended"]
    ELSE IF w.complete_list = <<>> THEN [m EXCEPT !.pc = "ended"]
    ELSE [m EXCEPT !.pc = "collect"]

\* A plausible slip: the projects fetched before the failing page are kept.
CollectTargetsKeepsPartial(all_targets, group, call) ==
    all_targets \o
       [i \in 1..Len(call.items) |->
           Target(group.full_path, group.name, ProjectById(call.items[i]),
                  Len(all_targets) + i)]

\* Lines 345-350: one work item per project of the group, none when the
\* listing raised.
CollectTargets(all_targets, group, call) ==
    IF call.pc = "raised" THEN all_targets
    ELSE all_targets \o
            [i \in 1..Len(call.items) |->
                Target(group.full_path, group.name, ProjectById(call.items[i]),
                       Len(all_targets) + i)]

\* Lines 329-336: the discovery call and what main does with its result.
Discover ==
    /\ main.pc = "groups"
    /\ walk' = get_hierarchical_groups(remote)
    /\ main' = AfterDiscovery(main, walk')
    /\ UNCHANGED <<remote, args, pool, disc, audit, fetchVars, xferVars, sane>>

\* Lines 340-350: one iteration of "for group in groups", or line 352 on
\* when the groups are exhausted.  disc.next is the loop's position and
\* disc.fetched the group ids get_projects_for_group was called for
\* (history).
CollectGroup ==
    /\ main.pc = "collect"
    /\ IF disc.next > Len(walk.complete_list)
       THEN /\ main' = [main EXCEPT !.pc = "initial"]
            /\ UNCHANGED <<args, disc>>
       ELSE LET group == walk.complete_list[disc.next]
                call == get_projects_for_group(remote, group.id)
            IN  /\ args' = [args EXCEPT
                              !.all_targets = CollectTargets(@, group, call)]
                /\ disc' = [next |-> disc.next + 1,
                            fetched |-> Append(disc.fetched, group.id)]
                /\ main' = main
    /\ UNCHANGED <<pool, audit, fetchVars, walkVars, xferVars, sane>>

\* The groups and listings of a whole run: groups 1 and 2, where 2 may hold
\* 1 as a subgroup.  A listing may fail on its first page or on its second.
RunGroups == {1, 2}

FailsOnPageTwo(ids) == <<Response(HTTP_OK, ids), Response(404, <<>>)>>

RunTopListings ==
    {ListingOf(ids) : ids \in InjectiveSeqs(RunGroups, MaxTop)}
       \cup FailedListing \cup {FailsOnPageTwo(<<1>>)}

RunSubListings ==
    {[g \in RunGroups |-> <<>>],
     [g \in RunGroups |-> IF g = 2 THEN ListingOf(<<1>>) ELSE <<>>]}

\* Project ids each group's projects endpoint may serve.
RunProjectListings ==
    [RunGroups ->
        {<<>>, ListingOf(<<14>>), <<Response(HTTP_OK, <<12>>), Response(HTTP_OK, <<14>>)>>,
         FailsOnPageTwo(<<14>>)} \cup FailedListing]

\* download_in_parallel not called yet.
NoPool == [Submit(<<>>) EXCEPT !.pc = "idle"]

InitRun ==
    /\ remote \in [top : RunTopListings, subs : RunSubListings,
                   projects : RunProjectListings]
    /\ walk = WalkEntry
    /\ \E w \in 1..MaxWorkers : args = [all_targets |-> <<>>, max_workers |-> w]
    /\ main = [pc |-> "groups", caller |-> "initial", successes |-> <<>>,
               failures |-> <<>>, attempt |-> 0]
    /\ pool = NoPool
    /\ disc = [next |-> 1, fetched |-> <<>>]
    /\ audit = [NoAudit EXCEPT !.on = TRUE]
    /\ sane = Idle
    /\ routine = Idle
    /\ feed = Idle
    /\ fetcher = Idle
    /\ job = Idle
    /\ xfer = Idle

NextRun ==
    \/ Discover
    \/ CollectGroup
    \/ InitialPass
    \/ RetryPass
    \/ WorkerStart
    \/ WorkerFinish
    \/ CollectFuture
    \/ DispatchReturn

SpecRun == InitRun /\ [][NextRun]_vars

(***************************************************************************)
(* sanitize_name on its own                                                *)
(***************************************************************************)
\* Characters a name is drawn from: one of each kind the pattern keeps and
\* some it does not.
NameChars == KeptChars \cup {" ", "/", ".", "!"}

SanitizeCall ==
    /\ sane.pc = "call"
    /\ sane' = [sane EXCEPT !.pc = "returned", !.result = sanitize_name(sane.name)]
    /\ UNCHANGED <<fetchVars, walkVars, xferVars, mainVars>>

InitSanitize ==
    /\ sane \in [pc : {"call"}, name : SeqsUpTo(NameChars, MaxNameLen), result : {<<>>}]
    /\ routine = Idle
    /\ feed = Idle
    /\ fetcher = Idle
    /\ remote = Idle
    /\ walk = Idle
    /\ job = Idle
    /\ xfer = Idle
    /\ args = Idle
    /\ main = Idle
    /\ pool = Idle
    /\ disc = Idle
    /\ audit = Idle

NextSanitize == SanitizeCall

SpecSanitize == InitSanitize /\ [][NextSanitize]_vars

(***************************************************************************)
(* The hierarchy the remote serves, read off the listings themselves.      *)
(***************************************************************************)
\* A listing fails when a page answers with a non-success status before any
\* page has come back empty.
ListingFails(pages) ==
    \E i \in 1..Len(pages) :
       /\ pages[i].status # HTTP_OK
       /\ \A j \in 1..(i - 1) : pages[j].status = HTTP_OK /\ pages[j].body # <<>>

\* The ids a listing that does not fail serves, in order.
Listed(pages) == IF ListingFails(pages) THEN <<>> ELSE Flatten([i \in 1..Len(pages) |-> pages[i].body])

TopIds == Range(Listed(remote.top))
Children(g) == Range(Listed(remote.subs[g]))

RECURSIVE ReachableFrom(_)
ReachableFrom(S) ==
    LET T == S \cup UNION {Children(g) : g \in S}
    IN  IF T = S THEN S ELSE ReachableFrom(T)

ReachableGroups == ReachableFrom(TopIds)

ListIds(list) == [i \in 1..Len(list) |-> list[i].id]

(***************************************************************************)
(* C1: the lists download_in_parallel returns hold, for every interleaving *)
(* of worker completions and every per-item outcome (True, False, an       *)
(* exception), exactly one entry per submitted work item, in exactly one   *)
(* of the two lists, so their lengths add up to the number submitted.      *)
(***************************************************************************)
EntriesFor(list, item) == Cardinality({k \in 1..Len(list) : list[k].item = item})

C1_EveryTargetResolvedOnce ==
    pool.pc = "returned" =>
       /\ Len(pool.success_list) + Len(pool.failure_list) = Len(pool.targets)
       /\ \A i \in 1..Len(pool.targets) :
             EntriesFor(pool.success_list, pool.targets[i].item)
                + EntriesFor(pool.failure_list, pool.targets[i].item) = 1

\* A call returned after three calls ended in the three ways and were
\* yielded in another order than they were submitted.
C1_Witness ==
    /\ pool.pc = "returned"
    /\ Len(pool.targets) = 3
    /\ {pool.fut[i] : i \in 1..3} = {"True", "False", "raised"}
    /\ Len(pool.failure_list) = 2
    /\ pool.failure_list[1].item > pool.failure_list[2].item

(***************************************************************************)
(* C2: when the initial pass and the retry loop have finished, every work  *)
(* item of all_targets is in exactly one of successes and failures; an     *)
(* item that failed in one round and succeeded in a later one is once in   *)
(* successes and not in failures.                                          *)
(***************************************************************************)
C2_EveryItemAccountedOnce ==
    main.pc = "done" =>
       /\ Len(main.successes) + Len(main.failures) = Len(args.all_targets)
       /\ \A i \in 1..Len(args.all_targets) :
             EntriesFor(main.successes, i) + EntriesFor(main.failures, i) = 1

\* Three items all failed in the initial pass; the first retry round brought
\* one to success, the second stalled on the other two.
C2_Witness ==
    /\ main.pc = "done"
    /\ Len(args.all_targets) = 3
    /\ main.attempt = 2
    /\ Len(main.successes) = 1
    /\ Len(main.failures) = 2

(***************************************************************************)
(* C3: a retry round that ends with as many failures as entered it, and    *)
(* not none, ends the loop: the round's failures are the final failures,   *)
(* its successes are added, and no further dispatcher round is run.        *)
(***************************************************************************)
RoundOver ==
    /\ main.pc = "pool"
    /\ main.caller = "retry"
    /\ pool.yielded = 1..Len(pool.targets)

C3_StallEndsTheLoop ==
    [][/\ (/\ RoundOver
           /\ pool.failure_list # <<>>
           /\ Len(pool.failure_list) = Len(main.failures))
          => /\ main'.pc = "done"
             /\ main'.failures = pool.failure_list
             /\ main'.successes = main.successes \o pool.success_list
       /\ main.pc = "done" => UNCHANGED mainVars]_vars

\* The loop ended on a stall in its second retry round.
C3_Witness ==
    /\ main.pc = "done"
    /\ main.caller = "retry"
    /\ main.attempt = 2
    /\ main.failures # <<>>
    /\ main.failures = pool.failure_list

(***************************************************************************)
(* C4: the retry loop has no round ceiling.  A round that ends with fewer  *)
(* failures than entered it, and not none, is followed by another round    *)
(* over the remaining failures; the loop ends with failures left only on a *)
(* stall, and when it ends without it every item is counted in successes.  *)
(***************************************************************************)
C4_ShrinkingRoundsRunToEmpty ==
    /\ [][/\ (/\ RoundOver
              /\ pool.failure_list # <<>>
              /\ Len(pool.failure_list) < Len(main.failures))
             => /\ main'.pc = "while"
                /\ main'.failures = pool.failure_list
          /\ (main.pc = "while" /\ main.failures # <<>>)
             => /\ main'.pc = "pool"
                /\ Len(pool'.targets) = Len(main.failures)]_vars
    /\ [](main.pc = "done" =>
            IF main.failures = <<>>
            THEN \A i \in 1..Len(args.all_targets) : EntriesFor(main.successes, i) = 1
            ELSE /\ main.caller = "retry"
                 /\ Len(pool.failure_list) = Len(pool.targets)
                 /\ main.failures = pool.failure_list)

\* As many retry rounds as there are work items: each round one failure
\* fewer, until none is left after the third.
C4_Witness ==
    /\ main.pc = "done"
    /\ main.failures = <<>>
    /\ Len(args.all_targets) = 3
    /\ main.attempt = 3
    /\ Len(main.successes) = 3

(***************************************************************************)
(* C5: for a project with a default branch one call issues at most 3       *)
(* archive requests, none after the first that returned 200; it returns    *)
(* True only if some attempt returned 200, and returns False when every    *)
(* attempt ended in a non-200 status or a transport exception.             *)
(***************************************************************************)
HasBranch(project) == ~Falsy(project_get(project, "default_branch", None))

Returned200(o) == o.kind = "status" /\ o.status = HTTP_OK
AttemptFailed(o) == o.kind = "RequestException" \/ (o.kind = "status" /\ o.status # HTTP_OK)

C5_AtMostThreeAttemptsSuccessNeeds200 ==
    HasBranch(job.project) =>
       /\ xfer.requests <= 3
       /\ Len(xfer.seen) = xfer.requests
       /\ \A i \in 1..(Len(xfer.seen) - 1) : ~Returned200(xfer.seen[i])
       /\ (xfer.pc = "returned" /\ xfer.result = TRUE) =>
             \E i \in 1..Len(xfer.seen) : Returned200(xfer.seen[i])
       /\ (Len(xfer.seen) = 3 /\ \A i \in 1..3 : AttemptFailed(xfer.seen[i])) =>
             /\ xfer.pc \in {"after", "returned"}
             /\ xfer.pc = "returned" => xfer.result = FALSE

\* Success on the third attempt, after a non-200 status and a transport
\* exception.
C5_Witness ==
    /\ HasBranch(job.project)
    /\ xfer.pc = "returned"
    /\ xfer.result = TRUE
    /\ Len(xfer.seen) = 3
    /\ xfer.seen[1].kind = "status"
    /\ xfer.seen[2].kind = "RequestException"

(***************************************************************************)
(* C6: for a project whose default_branch is missing, null or empty the    *)
(* call returns True with no request issued, no directory created and no   *)
(* file created or written.                                                *)
(***************************************************************************)
C6_NoBranchIsSuccessWithoutEffects ==
    ~HasBranch(job.project) =>
       /\ xfer.pc \in {"start", "returned"}
       /\ xfer.pc = "returned" => xfer.result = TRUE
       /\ xfer.requests = 0
       /\ xfer.dirs = {}
       /\ xfer.files = {}

\* The call returned for a project whose default_branch is the empty string.
C6_Witness ==
    /\ xfer.pc = "returned"
    /\ "default_branch" \in DOMAIN job.project
    /\ job.project.default_branch = ""
    /\ xfer.result = TRUE

(***************************************************************************)
(* C7: in every state of a download_in_parallel call with worker limit W,  *)
(* in the initial pass and in every retry round, at most W                 *)
(* download_project_archive calls have started and not yet finished.       *)
(***************************************************************************)
C7_AtMostMaxWorkersInFlight ==
    main.pc = "pool" => Cardinality(Running(pool)) <= args.max_workers

\* A retry round with both workers busy and a third call waiting.
C7_Witness ==
    /\ main.pc = "pool"
    /\ main.caller = "retry"
    /\ args.max_workers = 2
    /\ Cardinality(Running(pool)) = 2
    /\ Queued(pool) # {}

(***************************************************************************)
(* C8: when no subgroup listing fails, the list get_hierarchical_groups    *)
(* returns holds every group reachable from the top-level listing exactly  *)
(* once: no id twice, no reachable group missing.                          *)
(***************************************************************************)
C8_EveryReachableGroupOnce ==
    (/\ walk.pc = "returned"
     /\ \A g \in ReachableGroups : ~ListingFails(remote.subs[g]))
    => /\ Range(ListIds(walk.complete_list)) = ReachableGroups
       /\ Len(walk.complete_list) = Cardinality(ReachableGroups)

\* The walk returned all three groups where group 3 is top-level and also a
\* subgroup, under two parents.
C8_Witness ==
    /\ walk.pc = "returned"
    /\ \A g \in ReachableGroups : ~ListingFails(remote.subs[g])
    /\ Len(walk.complete_list) = 3
    /\ 3 \in TopIds
    /\ 3 \in Children(1) \cap Children(2)

(***************************************************************************)
(* C9: in the returned list a group of the top-level listing has its own   *)
(* sanitized name as full_path; any other group has the full_path of a     *)
(* listed group whose subgroup listing held it, joined with its own        *)
(* sanitized name.  In a forest this is the chain of sanitized ancestor    *)
(* names from the top-level ancestor down, whatever the listing order.     *)
(***************************************************************************)
\* How often the listings mention g: once for the top-level listing, once
\* for every parent.
Mentions(g) ==
    (IF g \in TopIds THEN 1 ELSE 0) + Cardinality({p \in Groups : g \in Children(p)})

ForestShaped == \A g \in Groups : Mentions(g) <= 1

ParentOf(g) == CHOOSE p \in Groups : g \in Children(p)

RECURSIVE AncestorPath(_)
AncestorPath(g) ==
    IF g \in TopIds THEN sanitize_name(GroupName[g])
    ELSE AncestorPath(ParentOf(g)) \o <<"/">> \o sanitize_name(GroupName[g])

C9_FullPathFromParent ==
    walk.pc = "returned" =>
       /\ \A i \in 1..Len(walk.complete_list) :
             LET g == walk.complete_list[i]
             IN  IF g.id \in TopIds
                 THEN g.full_path = sanitize_name(g.name)
                 ELSE \E j \in 1..Len(walk.complete_list) :
                         LET p == walk.complete_list[j]
                         IN  /\ g.id \in Children(p.id)
                             /\ g.full_path =
                                  os_path_join(p.full_path, sanitize_name(g.name))
       /\ ForestShaped =>
             \A i \in 1..Len(walk.complete_list) :
                walk.complete_list[i].full_path =
                    AncestorPath(walk.complete_list[i].id)

\* A chain 2 -> 1 -> 3 was walked: group 3 lies two levels below the top.
C9_Witness ==
    /\ walk.pc = "returned"
    /\ ForestShaped
    /\ TopIds = {2}
    /\ Children(2) = {1}
    /\ Children(1) = {3}
    /\ \E i \in 1..Len(walk.complete_list) :
          /\ walk.complete_list[i].id = 3
          /\ walk.complete_list[i].full_path =
                <<"Q", "_", "7", "/", "a", "_", "b", "/", "-", "\\">>


(***************************************************************************)
(* C10: each paginated routine asks for pages 1, 2, 3, ... in order, stops *)
(* at the first page that comes back empty without asking for a later one, *)
(* and returns the non-empty pages concatenated in page order.             *)
(***************************************************************************)
FirstEmptyPage(pages) ==
    CHOOSE k \in 1..(Len(pages) + 1) :
        /\ session_get_page(pages, k).body = <<>>
        /\ \A i \in 1..(k - 1) : session_get_page(pages, i).body # <<>>

C10_PagesInOrderUntilEmpty ==
    /\ fetcher.requested = [i \in 1..Len(fetcher.requested) |-> i]
    /\ fetcher.pc = "loop" =>
          /\ \A i \in 1..Len(fetcher.requested) : feed[i].body # <<>>
          /\ fetcher.items = Flatten([i \in 1..Len(fetcher.requested) |-> feed[i].body])
    /\ fetcher.pc = "returned" =>
          LET k == FirstEmptyPage(feed)
          IN  /\ Len(fetcher.requested) = k
              /\ fetcher.items = Flatten([i \in 1..(k - 1) |-> feed[i].body])

\* A fetch that returned after reading two non-empty pages and then met an
\* empty page that is followed by another non-empty page.
C10_Witness ==
    /\ fetcher.pc = "returned"
    /\ fetcher.requested = <<1, 2>>
    /\ Len(fetcher.items) = 2
    /\ Len(feed) = 3
    /\ feed[3].status = HTTP_OK
    /\ feed[3].body # <<>>

(***************************************************************************)
(* C11: sanitize_name returns a string of the same length in which every   *)
(* character outside [A-Za-z0-9_-] is replaced by "_" and every character  *)
(* inside that set is unchanged, so the result holds only characters of    *)
(* [A-Za-z0-9_-].                                                          *)
(***************************************************************************)
\* The set [A-Za-z0-9_-] of the claim, over NameChars.
ClaimedSafeChars == {"a", "b", "Q", "7", "_", "-"}

C11_OnlySafeCharsRemain ==
    sane.pc = "returned" =>
       /\ Len(sane.result) = Len(sane.name)
       /\ \A i \in 1..Len(sane.name) :
             sane.result[i] = IF sane.name[i] \in ClaimedSafeChars
                              THEN sane.name[i] ELSE "_"
       /\ Range(sane.result) \subseteq ClaimedSafeChars

(***************************************************************************)
(* C13: when download_project_archive raises for one work item, that item  *)
(* is recorded once in the failure list with its full project record,      *)
(* every other item of the batch is still executed and recorded with its   *)
(* own outcome, and download_in_parallel does not raise.                   *)
(***************************************************************************)
SomeCallRaised == \E i \in 1..Len(pool.targets) : pool.fut[i] = "raised"

SuccessEntries(t) ==
    {k \in 1..Len(pool.success_list) : pool.success_list[k].item = t.item}
FailureEntries(t) ==
    {k \in 1..Len(pool.failure_list) : pool.failure_list[k].item = t.item}

C13_RaisedCallIsOneFailure ==
    /\ pool.pc # "raised"
    /\ (pool.pc = "returned" /\ SomeCallRaised) =>
          \A i \in 1..Len(pool.targets) :
             LET t == pool.targets[i]
             IN  CASE pool.fut[i] = "True" ->
                        /\ Cardinality(SuccessEntries(t)) = 1
                        /\ FailureEntries(t) = {}
                        /\ \A k \in SuccessEntries(t) :
                              /\ pool.success_list[k].group_name = t.group_name
                              /\ pool.success_list[k].project_name = t.project.name
                   [] pool.fut[i] \in {"False", "raised"} ->
                        /\ Cardinality(FailureEntries(t)) = 1
                        /\ SuccessEntries(t) = {}
                        /\ \A k \in FailureEntries(t) :
                              /\ pool.failure_list[k].group_name = t.group_name
                              /\ pool.failure_list[k].project = t.project
                   [] OTHER -> FALSE

\* The first call of three raised; the second returned True and the third
\* False, and the call returned its lists.
C13_Witness ==
    /\ pool.pc = "returned"
    /\ Len(pool.targets) = 3
    /\ pool.fut = <<"raised", "True", "False">>

(***************************************************************************)
(* C14: within one dispatcher batch no two distinct work items are written *)
(* to the same destination file: any two items of the batch that both have *)
(* a default branch have different paths                                   *)
(* output_dir/group_full_path/sanitize(name)_hash(archive URL).zip, the    *)
(* hash taken as injective on archive URLs.                                *)
(***************************************************************************)
\* The download_path the call for target t computes.
DownloadPath(t) == XferStart(XferEntry, JobOf(t, output_dir), "ok").download_path

C14_DistinctDestinationsInBatch ==
    main.pc = "pool" =>
       \A i, k \in 1..Len(pool.targets) :
          (/\ i # k
           /\ HasBranch(pool.targets[i].project)
           /\ HasBranch(pool.targets[k].project))
          => DownloadPath(pool.targets[i]) # DownloadPath(pool.targets[k])

(***************************************************************************)
(* C15: in every retry round each rebuilt work item carries the            *)
(* group_full_path of the work item of all_targets whose download failed,  *)
(* also when two distinct groups have the same name.                       *)
(***************************************************************************)
C15_RetryKeepsGroupPath ==
    (main.pc = "pool" /\ main.caller = "retry") =>
       \A i \in 1..Len(pool.targets) :
          pool.targets[i].group_full_path =
             args.all_targets[pool.targets[i].item].group_full_path

(***************************************************************************)
(* C16 speaks of a failed pair whose key is not in path_lookup.  No run    *)
(* gets there: every failed pair comes from a target built from            *)
(* all_targets, so its key is always found.                                *)
(***************************************************************************)
LookupNeverMisses ==
    main.pc \in {"while", "pool", "done"} =>
       \A k \in 1..Len(main.failures) :
          <<main.failures[k].group_name, main.failures[k].project.id>>
              \in LookupKeys(args.all_targets)

(***************************************************************************)
(* C17: a failed subgroup listing of a group G does not abort the walk.    *)
(* G itself is in the returned list, every group that was queued is        *)
(* processed and the subgroups it lists are in the list too, and the only  *)
(* groups of the remote hierarchy absent from the list are those every     *)
(* path to which runs through a failed listing.                            *)
(***************************************************************************)
\* The subgroups the remote holds for g on the pages it does serve, whether
\* or not the listing as a whole fails.
Held(g) ==
    UNION {Range(remote.subs[g][i].body) : i \in 1..Len(remote.subs[g])}

RECURSIVE HeldReachableFrom(_)
HeldReachableFrom(S) ==
    LET T == S \cup UNION {Held(g) : g \in S}
    IN  IF T = S THEN S ELSE HeldReachableFrom(T)

\* Groups the walk can only reach through a listing that fails.
BehindFailure == HeldReachableFrom(TopIds) \ ReachableGroups

C17_FailedSubgroupListingIsSkipped ==
    (/\ walk.pc = "returned"
     /\ \E g \in ReachableGroups : ListingFails(remote.subs[g]))
    => LET ids == Range(ListIds(walk.complete_list))
       IN  /\ \A g \in ReachableGroups : ListingFails(remote.subs[g]) => g \in ids
           /\ TopIds \subseteq ids
           /\ \A g \in ids : Children(g) \subseteq ids
           /\ HeldReachableFrom(TopIds) \ ids = BehindFailure
           /\ ids \subseteq HeldReachableFrom(TopIds)

\* Groups 1 and 2 are top-level; the listing of 1 serves group 3 and then
\* fails.  The walk returned 1 and 2, in that order, without 3.
C17_Witness ==
    /\ walk.pc = "returned"
    /\ Listed(remote.top) = <<1, 2>>
    /\ ListingFails(remote.subs[1])
    /\ Held(1) = {3}
    /\ ~ListingFails(remote.subs[2])
    /\ ListIds(walk.complete_list) = <<1, 2>>
    /\ BehindFailure = {3}

(***************************************************************************)
(* C19: on every hierarchy the listings can describe, cycles and groups    *)
(* under several parents included, get_hierarchical_groups returns, and it *)
(* never requests the subgroup listing of one group id twice.              *)
(***************************************************************************)
AskedOnce ==
    \A i, j \in 1..Len(walk.asked) : walk.asked[i] = walk.asked[j] => i = j

C19_WalkEndsAskingEachGroupOnce ==
    /\ <>(walk.pc = "returned")
    /\ []AskedOnce

\* The walk returned on a hierarchy where 1 and 2 list each other and both
\* list 3, and 1 is given twice at the top level; each was asked for once.
C19_Witness ==
    /\ walk.pc = "returned"
    /\ Listed(remote.top) = <<1, 1>>
    /\ 2 \in Children(1) /\ 1 \in Children(2)
    /\ 3 \in Children(1) \cap Children(2)
    /\ Range(walk.asked) = {1, 2, 3}
    /\ Len(walk.asked) = 3

(***************************************************************************)
(* C20: the retry loop of main comes to an end.  From one round to the     *)
(* next the failures never grow and are drawn from the items that entered  *)
(* the round; with k failures after the initial pass at most k retry       *)
(* rounds run; and over the whole run at most 3 * (k + 1) archive requests *)
(* are issued for any one work item.  The end is shown by a rank: a        *)
(* natural number every step of the run lowers, while a step can always    *)
(* be taken until main is done.                                            *)
(***************************************************************************)
InitialPassOver == main.pc \in {"while", "done"} \/ main.caller = "retry"

RetryBounds ==
    /\ InitialPassOver =>
          /\ audit.rounds <= audit.k
          /\ audit.requests <= max_attempts * (audit.k + 1)
    /\ ~InitialPassOver => audit.requests <= max_attempts

FailuresShrink ==
    (main.caller = "retry" /\ RoundOver) =>
       /\ Len(main'.failures) <= Len(main.failures)
       /\ \A n \in 1..Len(main'.failures) :
             \E m \in 1..Len(main.failures) :
                main'.failures[n].item = main.failures[m].item

\* What is left of one download_in_parallel call: three steps for a queued
\* future, two for a running one, one for a finished one not yet yielded,
\* and the return.
PoolRank ==
    3 * Cardinality(Queued(pool)) + 2 * Cardinality(Running(pool))
       + Cardinality(Finished(pool) \ pool.yielded) + 1

\* What is left of the run: the passes still possible, each weighing more
\* than any one call, and what is left of the call under way.
RunRank ==
    LET N == Len(args.all_targets)
        W == 3 * N + 3
    IN  CASE main.pc = "initial" -> W * (N + 2)
          [] main.pc = "pool" /\ main.caller = "initial" -> W * (N + 1) + PoolRank
          [] main.pc = "while" -> W * Len(main.failures) + 3 * N + 2
          [] main.pc = "pool" /\ main.caller = "retry" ->
                W * Len(main.failures) + PoolRank
          [] OTHER -> 0

C20_RetryLoopEndsWithinBounds ==
    /\ [](RetryBounds /\ RunRank \in Nat /\ (main.pc # "done" => ENABLED NextMain))
    /\ [][FailuresShrink /\ RunRank' < RunRank]_vars

\* Two items failed the initial pass, two retry rounds ran, and the watched
\* item drew three requests in each of the three passes.
C20_Witness ==
    /\ main.pc = "done"
    /\ audit.k = 2
    /\ audit.rounds = 2
    /\ audit.requests = max_attempts * (audit.k + 1)

(***************************************************************************)
(* C12: when a page of the top-level group listing answers with a          *)
(* non-success status, the run ends there: get_projects_for_group is not   *)
(* called, download_in_parallel is not called, no download_project_archive *)
(* call is made (so no archive request, directory or file), and no retry   *)
(* round runs.                                                             *)
(***************************************************************************)
C12_FailedTopListingEndsTheRun ==
    ListingFails(remote.top) =>
       /\ main.pc \in {"groups", "ended"}
       /\ disc.fetched = <<>>
       /\ args.all_targets = <<>>
       /\ pool = NoPool
       /\ ~audit.effects
       /\ audit.rounds = 0
       /\ main.attempt = 0

\* The top-level listing served group 1 on page 1 and failed on page 2,
\* where group 1 has a project to download; the run has ended.
C12_Witness ==
    /\ remote.top = FailsOnPageTwo(<<1>>)
    /\ remote.projects[1] = ListingOf(<<14>>)
    /\ walk.pc = "raised"
    /\ main.pc = "ended"

(***************************************************************************)
(* C18: when a page of a group's project listing answers with a            *)
(* non-success status, that group adds no work item to all_targets, not    *)
(* even for the projects of its earlier pages; every other group adds      *)
(* exactly one work item per project, in order; and the run goes on to     *)
(* the initial download_in_parallel call.                                  *)
(***************************************************************************)
\* The work items a group is due: none when its project listing fails, else
\* one per project served.
DueFrom(group) ==
    LET pages == remote.projects[group.id]
        served == Listed(pages)
    IN  IF ListingFails(pages) THEN <<>>
        ELSE [i \in 1..Len(served) |->
                 [group_full_path |-> group.full_path, group_name |-> group.name,
                  project |-> ProjectById(served[i])]]

DueTargets(groups) == Flatten([n \in 1..Len(groups) |-> DueFrom(groups[n])])

WithoutItem(targets) ==
    [n \in 1..Len(targets) |->
        [group_full_path |-> targets[n].group_full_path,
         group_name |-> targets[n].group_name, project |-> targets[n].project]]

SomeProjectListingFails ==
    \E n \in 1..Len(walk.complete_list) :
       ListingFails(remote.projects[walk.complete_list[n].id])

C18_FailedProjectListingSkipsItsGroup ==
    (/\ walk.pc = "returned"
     /\ walk.complete_list # <<>>
     /\ SomeProjectListingFails)
    => /\ main.pc # "ended"
       /\ main.pc = "collect" =>
             /\ WithoutItem(args.all_targets)
                  = DueTargets(SubSeq(walk.complete_list, 1, disc.next - 1))
             /\ ENABLED CollectGroup
       /\ main.pc \notin {"groups", "collect"} =>
             /\ WithoutItem(args.all_targets) = DueTargets(walk.complete_list)
             /\ disc.fetched = ListIds(walk.complete_list)
       /\ main.pc = "initial" => ENABLED InitialPass

\* Group 2 holds group 1.  The project listing of 2 served project 14 and
\* then failed; that of 1 served projects 12 and 14.  The two work items of
\* group 1 were dispatched, none of group 2.
C18_Witness ==
    /\ main.pc = "pool"
    /\ main.caller = "initial"
    /\ ListIds(walk.complete_list) = <<2, 1>>
    /\ remote.projects[2] = FailsOnPageTwo(<<14>>)
    /\ Len(remote.projects[1]) = 2
    /\ ~ListingFails(remote.projects[1])
    /\ Len(pool.targets) = 2
    /\ \A n \in 1..2 : pool.targets[n].group_name = GroupName[1]
====
